---- MODULE Spec2Model ----
(***************************************************************************)
(* The SonarQube onboarding handler (sonarqubeOnboarding.lambda.ts) as a   *)
(* state machine: one invocation reads the admin secret, polls the status  *)
(* endpoint, then runs create-user, grant, generate-token and              *)
(* putSecretValue for the Jenkins account and for the CodeBuild account.   *)
(* The secret store and the SonarQube server are the environment: every    *)
(* call draws its response from the responses that call can get.           *)
(***************************************************************************)
EXTENDS Integers, Sequences, FiniteSets, TLC

\* ------------------------------------------------------------------ bounds
MaxRuns == 2          \* invocations of the handler in one behaviour

\* --------------------------------------------------------------- constants
maxAttempts == 30     \* waitForSonarQube: const maxAttempts = 30

Procs == {1, 2}       \* handler instances; Spec, the serialised system, runs instance 1
Accounts == 1..2      \* 1: the Jenkins account, 2: the CodeBuild account
Undefined == "undefined"

EnvNames == {"SONAR_URL", "SONAR_ADMIN_SECRET_ARN",
             "SONAR_JENKINS_SECRET_ARN", "SONAR_CODEBUILD_SECRET_ARN"}
AdminArn == "arn:admin"
JenkinsArn == "arn:jenkins"
CodeBuildArn == "arn:codebuild"
Arns == {AdminArn, JenkinsArn, CodeBuildArn}

GoodEnv == [n \in EnvNames |->
              CASE n = "SONAR_URL" -> "http://sonar"
                [] n = "SONAR_ADMIN_SECRET_ARN" -> AdminArn
                [] n = "SONAR_JENKINS_SECRET_ARN" -> JenkinsArn
                [] OTHER -> CodeBuildArn]

\* The environments an invocation can be given: every variable set, or one
\* of them unset (undefined) or set to the empty string.
EnvChoices == {GoodEnv} \cup
              {[GoodEnv EXCEPT ![n] = v] : n \in EnvNames, v \in {Undefined, ""}}

\* ------------------------------------------------------ JSON object texts
\* A JSON object text is the sequence of its <<key, value>> members in
\* written order; a secret is <<>> (no SecretString) or <<text>>.
Keys(rec) == {rec[j][1] : j \in 1..Len(rec)}

Get(rec, k) ==
  IF k \in Keys(rec)
    THEN rec[CHOOSE j \in 1..Len(rec) : rec[j][1] = k][2]
    ELSE Undefined

RECURSIVE Replace(_, _, _)
Replace(rec, k, v) ==
  IF rec = <<>> THEN <<>>
  ELSE <<IF Head(rec)[1] = k THEN <<k, v>> ELSE Head(rec)>> \o Replace(Tail(rec), k, v)

\* obj[k] = v on a JavaScript object: an existing key keeps its position.
SetField(rec, k, v) ==
  IF k \in Keys(rec) THEN Replace(rec, k, v) ELSE Append(rec, <<k, v>>)

\* JSON.parse of an object text: members are assigned in order, so a
\* repeated key keeps its first position and its last value.
RECURSIVE ParseFrom(_, _)
ParseFrom(text, acc) ==
  IF text = <<>> THEN acc
  ELSE ParseFrom(Tail(text), SetField(acc, Head(text)[1], Head(text)[2]))

JSONparse(text) == ParseFrom(text, <<>>)

IsDefinedMember(kv) == kv[2] # Undefined

\* JSON.stringify of an object: members in insertion order, those whose
\* value is undefined are left out.
JSONstringify(rec) == SelectSeq(rec, IsDefinedMember)

\* adminSecret.SecretString || '{}'
SecretStringOr(secret) == IF secret = <<>> THEN <<>> ELSE secret[1]

AdminText == << <<"username", "admin">>, <<"password", "p1">> >>
JenkinsText == << <<"username", "jenkins">>, <<"password", "p2">> >>
CodeBuildText == << <<"username", "codebuild">>, <<"password", "p3">> >>

\* The admin account the SonarQube server accepts.
ServiceAdmin == [username |-> "admin", password |-> "p1"]

AdminSecretChoices ==
  { <<AdminText>>,
    <<>>,                                         \* no SecretString
    << << <<"username", "admin">> >> >> }         \* no password member

JenkinsSecretChoices ==
  { <<JenkinsText>>,
    << << <<"name", "Jenkins CI">>, <<"username", "jenkins">>,
          <<"token", "stale">>, <<"password", "p2">> >> >>,
    <<>> }                                        \* no SecretString

CodeBuildSecretChoices ==
  { <<CodeBuildText>>,
    << << <<"username", "codebuild">>, <<"password", "old">>,
          <<"password", "p3">>, <<"name", "CodeBuild">> >> >> }

Logins == {"jenkins", "codebuild"}

\* ------------------------------------------------------------------- state
VARIABLES
  \* the environment
  env,            \* process.env of the deployed function
  secrets,        \* the secret store: secret reference -> <<>> or <<text>>
  users,          \* SonarQube's user database: login -> number of accounts
  perms,          \* logins that hold the scan permission
  tokenNames,     \* <<login, token name>> of the tokens SonarQube holds
  issued,         \* tokens SonarQube has issued so far
  lastIssued,     \* login -> the token issued to it most recently
  runs,           \* invocations started so far
  prev,           \* outcomes of the invocations that have ended, in order
  \* one invocation of the handler
  pc,             \* where the invocation stands
  i,              \* waitForSonarQube's loop counter
  adminAuth,      \* handler's adminAuth
  acct,           \* the account processServiceAccount is running for
  creds,          \* processServiceAccount's serviceAccountCredentials
  token,          \* processServiceAccount's token
  err,            \* the error the invocation was rejected with
  \* what the invocation has done so far
  adminReads,     \* getSecretValue calls on the admin reference
  polls,          \* calls of waitForSonarQube
  probes,         \* GET /api/system/status requests
  delays,         \* delays taken by waitForSonarQube
  healthy,        \* a probe of this invocation answered status UP
  cnt,            \* account -> step -> requests issued
  res,            \* account -> step -> "none", "ok" or "err"
  readText,       \* account -> the secret as read at the start of its sequence
  readRec,        \* account -> the record parsed from it
  nameSent,       \* account -> the token name sent to user_tokens/generate
  nameKnown,      \* account -> SonarQube already held a token of that name
  lastResp,       \* the answer to the invocation's latest POST
  posted,         \* account -> the form posted to users/create
  getRef,         \* account -> the SecretId of its getSecretValue call
  putRef,         \* account -> the SecretId of its putSecretValue call
  before,         \* the secret store as it was when the invocation started
  existed,        \* account -> its create-user call was answered "already exists"
  probed,         \* the answer to the invocation's latest status probe
  authSent,       \* account -> step -> the basic-auth pair its request carried
  grantForm,      \* account -> the form posted to permissions/add_user
  faulted         \* a call of this invocation met a transport or server fault

envVars == <<env, secrets, users, perms, tokenNames, issued, lastIssued, runs, prev>>
locals == <<pc, i, adminAuth, acct, creds, token, err>>
seen == <<adminReads, polls, probes, delays, healthy, cnt, res, readText, readRec,
          nameSent, nameKnown, lastResp, posted, getRef, putRef, before, existed, probed,
          authSent, grantForm, faulted>>
vars == <<envVars, locals, seen>>

Steps == {"get", "create", "grant", "token", "put"}
NoAuth == [username |-> Undefined, password |-> Undefined]
NoResponse == [status |-> -1, errors |-> <<>>]      \* no POST sent yet
\* No probe sent yet
NoProbe == [failed |-> FALSE, status |-> "none"]
\* The requests that carry basic auth, and the marks of a request not sent
Posts == {"create", "grant", "token"}
NotSent == [username |-> "none", password |-> "none"]
NoGrant == [login |-> "none", permission |-> "none"]
NoForm == [login |-> "none", name |-> "none", password |-> "none"]

\* Nothing has run yet: an empty SonarQube, no invocation started.
InitRun ==
  /\ users = [l \in Logins |-> 0]
  /\ perms = {}
  /\ tokenNames = {}
  /\ issued = 0
  /\ lastIssued = [l \in Logins |-> Undefined]
  /\ runs = 0
  /\ prev = <<>>
  /\ pc = [p \in Procs |-> "idle"]
  /\ i = [p \in Procs |-> 0]
  /\ adminAuth = [p \in Procs |-> NoAuth]
  /\ acct = [p \in Procs |-> 1]
  /\ creds = [p \in Procs |-> <<>>]
  /\ token = [p \in Procs |-> Undefined]
  /\ err = [p \in Procs |-> "none"]
  /\ adminReads = [p \in Procs |-> 0]
  /\ polls = [p \in Procs |-> 0]
  /\ probes = [p \in Procs |-> 0]
  /\ delays = [p \in Procs |-> 0]
  /\ healthy = [p \in Procs |-> FALSE]
  /\ cnt = [p \in Procs |-> [a \in Accounts |-> [s \in Steps |-> 0]]]
  /\ res = [p \in Procs |-> [a \in Accounts |-> [s \in Steps |-> "none"]]]
  /\ readText = [p \in Procs |-> [a \in Accounts |-> <<>>]]
  /\ readRec = [p \in Procs |-> [a \in Accounts |-> <<>>]]
  /\ nameSent = [p \in Procs |-> [a \in Accounts |-> <<>>]]
  /\ nameKnown = [p \in Procs |-> [a \in Accounts |-> FALSE]]
  /\ lastResp = [p \in Procs |-> NoResponse]
  /\ posted = [p \in Procs |-> [a \in Accounts |-> NoForm]]
  /\ getRef = [p \in Procs |-> [a \in Accounts |-> "none"]]
  /\ putRef = [p \in Procs |-> [a \in Accounts |-> "none"]]
  /\ before = [p \in Procs |-> secrets]
  /\ existed = [p \in Procs |-> [a \in Accounts |-> FALSE]]
  /\ probed = [p \in Procs |-> NoProbe]
  /\ authSent = [p \in Procs |-> [a \in Accounts |-> [s \in Posts |-> NotSent]]]
  /\ grantForm = [p \in Procs |-> [a \in Accounts |-> NoGrant]]
  /\ faulted = [p \in Procs |-> FALSE]

Init ==
  /\ \/ /\ env = GoodEnv
        /\ \E a \in AdminSecretChoices, j \in JenkinsSecretChoices,
              c \in CodeBuildSecretChoices :
             secrets = [r \in Arns |-> CASE r = AdminArn -> a
                                         [] r = JenkinsArn -> j
                                         [] OTHER -> c]
     \/ /\ env \in EnvChoices \ {GoodEnv}
        /\ secrets = [r \in Arns |-> CASE r = AdminArn -> <<AdminText>>
                                       [] r = JenkinsArn -> <<JenkinsText>>
                                       [] OTHER -> <<CodeBuildText>>]
  /\ InitRun

\* ------------------------------------------------- responses of the calls
\* getSecretValue / putSecretValue: the call resolves or rejects.
SmOutcomes == {"ok", "throws"}

\* A call on a reference the store does not hold rejects.
SmOutcomesFor(arn) == IF arn \in Arns THEN SmOutcomes ELSE {"throws"}

\* GET /api/system/status: a 2xx answer with a status member, or no answer.
ProbeResponses ==
  { [failed |-> FALSE, status |-> "UP"],
    [failed |-> FALSE, status |-> "STARTING"],
    [failed |-> TRUE, status |-> Undefined] }

\* A POST's answer: its HTTP status (0: the request got no response) and the
\* msg members of the body's errors list, each a sequence of words.
Ok == [status |-> 200, errors |-> <<>>]
AlreadyExists ==
  [status |-> 400, errors |-> << <<"login", "already", "exists">> >>]
NameConflict ==
  [status |-> 400, errors |-> << <<"token", "name", "already", "exists">> >>]
Unauthorized == [status |-> 401, errors |-> <<>>]
Invalid == [status |-> 400, errors |-> << <<"login", "is", "missing">> >>]
NotFound == [status |-> 404, errors |-> << <<"user", "not", "found">> >>]
Faults ==
  { [status |-> 0, errors |-> <<>>],                       \* network error, timeout
    [status |-> 500, errors |-> <<>>],
    [status |-> 400, errors |-> << <<"password", "too", "short">> >>],
    [status |-> 400, errors |-> <<>>] }                    \* 400 without an errors list

Succeeded(resp) == resp.status = 200

\* What SonarQube answers to users/create sent with credentials auth for login.
CreateResponses(auth, login, password) ==
  IF auth # ServiceAdmin THEN {Unauthorized}
  ELSE IF login \notin Logins \/ password = Undefined THEN {Invalid}
  ELSE IF users[login] > 0 THEN {AlreadyExists} \cup Faults
  ELSE {Ok} \cup Faults

GrantResponses(auth, login) ==
  IF auth # ServiceAdmin THEN {Unauthorized}
  ELSE IF login \notin Logins \/ users[login] = 0 THEN {NotFound}
  ELSE {Ok} \cup Faults

\* A repeated token name is refused or accepted, as the server's version has it.
TokenResponses(auth, name) ==
  IF auth.username \notin Logins \/ auth.password = Undefined THEN {Unauthorized}
  ELSE IF users[auth.username] = 0 THEN {Unauthorized}
  ELSE {Ok} \cup Faults
       \cup (IF <<auth.username, name>> \in tokenNames THEN {NameConflict} ELSE {})

\* ------------------------------------------------------ the code's decisions
Falsy(v) == v = Undefined \/ v = ""

\* A test for undefined alone, which lets an empty value through.
EnvMissingUndefinedOnly(e) == \E n \in EnvNames : e[n] = Undefined

\* handler: if (!sonarUrl || !adminSecretArn || !jenkinsSecretArn || !codeBuildSecretArn)
EnvMissing(e) ==
  \/ Falsy(e["SONAR_URL"])
  \/ Falsy(e["SONAR_ADMIN_SECRET_ARN"])
  \/ Falsy(e["SONAR_JENKINS_SECRET_ARN"])
  \/ Falsy(e["SONAR_CODEBUILD_SECRET_ARN"])

\* The CodeBuild secret handed to the first call, the Jenkins secret to
\* the second.
SecretArnSwapped(a) ==
  IF a = 1 THEN env["SONAR_CODEBUILD_SECRET_ARN"] ELSE env["SONAR_JENKINS_SECRET_ARN"]

\* handler: the secretArn argument of the two processServiceAccount calls
SecretArn(a) ==
  IF a = 1 THEN env["SONAR_JENKINS_SECRET_ARN"] ELSE env["SONAR_CODEBUILD_SECRET_ARN"]

\* Any answered request taken as healthy, whatever its status member.
IsHealthyAnyResponse(resp) == ~resp.failed

\* A request that got no answer taken as healthy too.
IsHealthyOrError(resp) == resp.failed \/ resp.status = "UP"

\* waitForSonarQube: the request resolved and response.data.status === 'UP'
IsHealthy(resp) == ~resp.failed /\ resp.status = "UP"

\* String.prototype.includes on word sequences
Includes(hay, needle) ==
  \E k \in 0..(Len(hay) - Len(needle)) : SubSeq(hay, k + 1, k + Len(needle)) = needle

\* The conflict looked for under status 409.
IsAmnesty409(resp) ==
  /\ resp.status = 409
  /\ Includes(resp.errors[1], <<"already", "exists">>)

\* No amnesty at all: "already exists" fails like any other answer.
IsAmnestyNever(resp) == FALSE

\* Every 400 taken as "already exists", whatever its message.
IsAmnestyAny400(resp) == resp.status = 400

\* createUser's catch: error.response && error.response.status === 400 &&
\* error.response.data.errors[0].msg.includes('already exists')
IsAmnesty(resp) ==
  /\ resp.status # 0
  /\ resp.status = 400
  /\ Includes(resp.errors[1], <<"already", "exists">>)

\* createUser: how the call ends for an answer. Reading errors[0].msg of a
\* 400 body without errors raises a TypeError inside the catch block.
CreateOutcome(resp) ==
  IF Succeeded(resp) THEN "created"
  ELSE IF resp.status = 400 /\ resp.errors = <<>> THEN "TypeError"
  ELSE IF IsAmnesty(resp) THEN "exists"
  ELSE "AxiosError"

\* createUser: qs.stringify({ login, name, password }) of the record's
\* username (as login and as name) and password
CreateForm(username, password) ==
  [login |-> username, name |-> username, password |-> password]

\* A name that also carries a per-request stamp.
TokenNameStamped(username) == <<username, ToString(issued)>>

\* grantPermissions: qs.stringify({ login: username, permission: 'scan' })
GrantForm(username) == [login |-> username, permission |-> "scan"]

\* The token asked for under the admin's name and password.
TokenAuthAdmin(admin, rec) == admin

\* processServiceAccount: the userAuth handed to generateUserToken, built
\* from the account's record; adminAuth is in scope and not used
TokenAuth(admin, rec) ==
  [username |-> Get(rec, "username"), password |-> Get(rec, "password")]

\* generateUserToken: name: `${userAuth.username}-token`
TokenName(username) == <<username, "-token">>

\* The token written alone, the record's other fields dropped.
UpdatedSecretStringTokenOnly(rec, tok) == JSONstringify(<< <<"token", tok>> >>)

\* A record rebuilt from the fields the handler knows.
UpdatedSecretStringKnownFields(rec, tok) ==
  JSONstringify(<< <<"username", Get(rec, "username")>>,
                   <<"password", Get(rec, "password")>>, <<"token", tok>> >>)

\* A token written only where the record has none.
UpdatedSecretStringKeepToken(rec, tok) ==
  IF "token" \in Keys(rec) THEN JSONstringify(rec)
  ELSE JSONstringify(SetField(rec, "token", tok))

\* processServiceAccount: serviceAccountCredentials.token = token, then
\* JSON.stringify(serviceAccountCredentials)
UpdatedSecretString(rec, tok) == JSONstringify(SetField(rec, "token", tok))

\* The handler returning after the first account.
AfterReturnFirstOnly(a) == [pc |-> "done", acct |-> a]

\* handler: the two processServiceAccount calls are awaited in turn
AfterReturn(a) ==
  IF a = 1 THEN [pc |-> "getSecret", acct |-> 2] ELSE [pc |-> "done", acct |-> a]

\* A failed account sequence started over.
AfterThrowRetry(a) == [pc |-> "getSecret", acct |-> a]

\* The first account's failure caught, the second account still run.
AfterThrowIsolated(a) ==
  IF a = 1 THEN [pc |-> "getSecret", acct |-> 2] ELSE [pc |-> "failed", acct |-> a]

\* handler: a rejected processServiceAccount call rejects the handler
AfterThrow(a) == [pc |-> "failed", acct |-> a]

\* The loop's end taken as a return.
AfterLoopReturns == "getSecret"

\* waitForSonarQube: after the loop, throw new Error('SonarQube did not become available in time')
AfterLoop == "failed"

\* ----------------------------------------------------------------- actions
svc == <<users, perms, tokenNames, issued, lastIssued>>
hist == <<runs, prev>>
poll == <<adminReads, polls, probes, delays, healthy>>
recs == <<readText, readRec>>
names == <<nameSent, nameKnown>>
sent == <<nameSent, nameKnown, lastResp>>
refs == <<posted, getRef, putRef, before, existed, probed, authSent, grantForm>>

Running(p) == pc[p] \notin {"idle", "done", "failed"}

\* The handler is rejected with error e.
Reject(p, e) ==
  /\ pc' = [pc EXCEPT ![p] = "failed"]
  /\ err' = [err EXCEPT ![p] = e]

\* The handler goes on at n (a record of AfterReturn or AfterThrow).
Continue(p, n, e) ==
  /\ pc' = [pc EXCEPT ![p] = n.pc]
  /\ acct' = [acct EXCEPT ![p] = n.acct]
  /\ err' = IF n.pc = "failed" THEN [err EXCEPT ![p] = e] ELSE err

\* The invoking system starts the handler; a new invocation holds nothing
\* of an earlier one.
StartRun(p) ==
  /\ ~Running(p)
  /\ runs < MaxRuns
  /\ runs' = runs + 1
  /\ prev' = IF pc[p] = "idle" THEN prev ELSE Append(prev, pc[p])
  /\ pc' = [pc EXCEPT ![p] = "config"]
  /\ i' = [i EXCEPT ![p] = 0]
  /\ adminAuth' = [adminAuth EXCEPT ![p] = NoAuth]
  /\ acct' = [acct EXCEPT ![p] = 1]
  /\ creds' = [creds EXCEPT ![p] = <<>>]
  /\ token' = [token EXCEPT ![p] = Undefined]
  /\ err' = [err EXCEPT ![p] = "none"]
  /\ adminReads' = [adminReads EXCEPT ![p] = 0]
  /\ polls' = [polls EXCEPT ![p] = 0]
  /\ probes' = [probes EXCEPT ![p] = 0]
  /\ delays' = [delays EXCEPT ![p] = 0]
  /\ healthy' = [healthy EXCEPT ![p] = FALSE]
  /\ cnt' = [cnt EXCEPT ![p] = [a \in Accounts |-> [s \in Steps |-> 0]]]
  /\ res' = [res EXCEPT ![p] = [a \in Accounts |-> [s \in Steps |-> "none"]]]
  /\ readText' = [readText EXCEPT ![p] = [a \in Accounts |-> <<>>]]
  /\ readRec' = [readRec EXCEPT ![p] = [a \in Accounts |-> <<>>]]
  /\ nameSent' = [nameSent EXCEPT ![p] = [a \in Accounts |-> <<>>]]
  /\ nameKnown' = [nameKnown EXCEPT ![p] = [a \in Accounts |-> FALSE]]
  /\ lastResp' = [lastResp EXCEPT ![p] = NoResponse]
  /\ posted' = [posted EXCEPT ![p] = [a \in Accounts |-> NoForm]]
  /\ getRef' = [getRef EXCEPT ![p] = [a \in Accounts |-> "none"]]
  /\ putRef' = [putRef EXCEPT ![p] = [a \in Accounts |-> "none"]]
  /\ before' = [before EXCEPT ![p] = secrets]
  /\ existed' = [existed EXCEPT ![p] = [a \in Accounts |-> FALSE]]
  /\ probed' = [probed EXCEPT ![p] = NoProbe]
  /\ authSent' = [authSent EXCEPT ![p] = [a \in Accounts |-> [s \in Posts |-> NotSent]]]
  /\ grantForm' = [grantForm EXCEPT ![p] = [a \in Accounts |-> NoGrant]]
  /\ faulted' = [faulted EXCEPT ![p] = FALSE]
  /\ UNCHANGED <<env, secrets, svc>>

\* handler, lines 8-17
CheckConfig(p) ==
  /\ pc[p] = "config"
  /\ IF EnvMissing(env)
       THEN Reject(p, "ConfigurationError")
       ELSE pc' = [pc EXCEPT ![p] = "getAdmin"] /\ UNCHANGED err
  /\ UNCHANGED <<env, secrets, svc, hist, i, adminAuth, acct, creds, token, seen>>

\* The admin secret written back with a mark that it was read.
GetAdminSecretStamped(p) ==
  /\ pc[p] = "getAdmin"
  /\ UNCHANGED <<posted, getRef, putRef, before, existed, probed, authSent, grantForm>>
  /\ adminReads' = [adminReads EXCEPT ![p] = @ + 1]
  /\ \E o \in SmOutcomesFor(env["SONAR_ADMIN_SECRET_ARN"]) :
       IF o = "throws"
         THEN /\ Reject(p, "SecretsManagerError")
              /\ faulted' = [faulted EXCEPT ![p] = TRUE]
              /\ UNCHANGED <<adminAuth, polls, i, secrets>>
         ELSE LET adminCredentials ==
                    JSONparse(SecretStringOr(secrets[env["SONAR_ADMIN_SECRET_ARN"]]))
              IN /\ adminAuth' = [adminAuth EXCEPT ![p] =
                                    [username |-> Get(adminCredentials, "username"),
                                     password |-> Get(adminCredentials, "password")]]
                 /\ polls' = [polls EXCEPT ![p] = @ + 1]
                 /\ i' = [i EXCEPT ![p] = 0]
                 /\ pc' = [pc EXCEPT ![p] = "probe"]
                 /\ UNCHANGED <<err, faulted>>
                 /\ secrets' = [secrets EXCEPT ![env["SONAR_ADMIN_SECRET_ARN"]] =
                                  <<JSONstringify(SetField(adminCredentials, "read", "yes"))>>]
  /\ UNCHANGED <<env, svc, hist, acct, creds, token, probes, delays, healthy,
                 cnt, res, recs, sent>>

\* handler, lines 19-30: read the admin secret, build adminAuth, call waitForSonarQube
GetAdminSecret(p) ==
  /\ pc[p] = "getAdmin"
  /\ UNCHANGED <<posted, getRef, putRef, before, existed, probed, authSent, grantForm>>
  /\ adminReads' = [adminReads EXCEPT ![p] = @ + 1]
  /\ \E o \in SmOutcomesFor(env["SONAR_ADMIN_SECRET_ARN"]) :
       IF o = "throws"
         THEN /\ Reject(p, "SecretsManagerError")
              /\ faulted' = [faulted EXCEPT ![p] = TRUE]
              /\ UNCHANGED <<adminAuth, polls, i>>
         ELSE LET adminCredentials ==
                    JSONparse(SecretStringOr(secrets[env["SONAR_ADMIN_SECRET_ARN"]]))
              IN /\ adminAuth' = [adminAuth EXCEPT ![p] =
                                    [username |-> Get(adminCredentials, "username"),
                                     password |-> Get(adminCredentials, "password")]]
                 /\ polls' = [polls EXCEPT ![p] = @ + 1]
                 /\ i' = [i EXCEPT ![p] = 0]
                 /\ pc' = [pc EXCEPT ![p] = "probe"]
                 /\ UNCHANGED <<err, faulted>>
  /\ UNCHANGED <<env, secrets, svc, hist, acct, creds, token, probes, delays, healthy,
                 cnt, res, recs, sent>>

\* The delay placed in a finally block: taken after every request, the
\* answered one too.
ProbeDelayInFinally(p) ==
  /\ pc[p] = "probe"
  /\ i[p] < maxAttempts
  /\ probes' = [probes EXCEPT ![p] = @ + 1]
  /\ delays' = [delays EXCEPT ![p] = @ + 1]
  /\ \E r \in ProbeResponses :
       /\ probed' = [probed EXCEPT ![p] = r]
       /\ healthy' = [healthy EXCEPT ![p] = @ \/ (~r.failed /\ r.status = "UP")]
       /\ pc' = [pc EXCEPT ![p] = IF IsHealthy(r) THEN "getSecret" ELSE "probe"]
       /\ i' = [i EXCEPT ![p] = IF IsHealthy(r) THEN @ ELSE @ + 1]
  /\ UNCHANGED <<env, secrets, svc, hist, adminAuth, acct, creds, token, err,
                 adminReads, polls, cnt, res, recs, sent, posted, getRef, putRef,
                 before, existed, authSent, grantForm, faulted>>

\* waitForSonarQube, lines 46-53: one pass of the loop body up to the test
Probe(p) ==
  /\ pc[p] = "probe"
  /\ UNCHANGED <<posted, getRef, putRef, before, existed, authSent, grantForm>>
  /\ i[p] < maxAttempts
  /\ probes' = [probes EXCEPT ![p] = @ + 1]
  /\ \E r \in ProbeResponses :
       /\ probed' = [probed EXCEPT ![p] = r]
       /\ healthy' = [healthy EXCEPT ![p] = @ \/ (~r.failed /\ r.status = "UP")]
       /\ pc' = [pc EXCEPT ![p] = IF IsHealthy(r) THEN "getSecret" ELSE "delay"]
  /\ UNCHANGED <<env, secrets, svc, hist, i, adminAuth, acct, creds, token, err,
                 adminReads, polls, delays, cnt, res, recs, sent, faulted>>

\* A loop whose counter is never advanced.
DelayNoIncrement(p) ==
  /\ pc[p] = "delay"
  /\ delays' = [delays EXCEPT ![p] = @ + 1]
  /\ pc' = [pc EXCEPT ![p] = "probe"]
  /\ UNCHANGED <<env, secrets, svc, hist, i, adminAuth, acct, creds, token, err,
                 adminReads, polls, probes, healthy, cnt, res, recs, sent, refs, faulted>>

\* waitForSonarQube, line 57 and the loop's i++
Delay(p) ==
  /\ pc[p] = "delay"
  /\ UNCHANGED <<posted, getRef, putRef, before, existed, probed, authSent, grantForm>>
  /\ delays' = [delays EXCEPT ![p] = @ + 1]
  /\ i' = [i EXCEPT ![p] = @ + 1]
  /\ pc' = [pc EXCEPT ![p] = "probe"]
  /\ UNCHANGED <<env, secrets, svc, hist, adminAuth, acct, creds, token, err,
                 adminReads, polls, probes, healthy, cnt, res, recs, sent, faulted>>

\* waitForSonarQube, lines 46 and 60: the loop ends without a return
PollExhausted(p) ==
  /\ pc[p] = "probe"
  /\ i[p] >= maxAttempts
  /\ IF AfterLoop = "failed"
       THEN Reject(p, "ServiceUnavailable")
       ELSE pc' = [pc EXCEPT ![p] = AfterLoop] /\ UNCHANGED err
  /\ UNCHANGED <<env, secrets, svc, hist, i, adminAuth, acct, creds, token, seen>>

Count(p, s) == [cnt EXCEPT ![p][acct[p]][s] = @ + 1]
Result(p, s, v) == [res EXCEPT ![p][acct[p]][s] = v]
Fault(p, b) == [faulted EXCEPT ![p] = @ \/ b]

\* processServiceAccount, lines 68-70
GetAccountSecret(p) ==
  /\ pc[p] = "getSecret"
  /\ getRef' = [getRef EXCEPT ![p][acct[p]] = SecretArn(acct[p])]
  /\ UNCHANGED <<posted, putRef, before, existed, probed, authSent, grantForm>>
  /\ cnt' = Count(p, "get")
  /\ \E o \in SmOutcomesFor(SecretArn(acct[p])) :
       IF o = "throws"
         THEN /\ Continue(p, AfterThrow(acct[p]), "SecretsManagerError")
              /\ res' = Result(p, "get", "err")
              /\ faulted' = Fault(p, TRUE)
              /\ UNCHANGED <<creds, recs>>
         ELSE LET secret == secrets[SecretArn(acct[p])]
                  serviceAccountCredentials == JSONparse(SecretStringOr(secret))
              IN /\ creds' = [creds EXCEPT ![p] = serviceAccountCredentials]
                 /\ readText' = [readText EXCEPT ![p][acct[p]] = secret]
                 /\ readRec' = [readRec EXCEPT ![p][acct[p]] = serviceAccountCredentials]
                 /\ res' = Result(p, "get", "ok")
                 /\ pc' = [pc EXCEPT ![p] = "create"]
                 /\ UNCHANGED <<acct, err, faulted>>
  /\ UNCHANGED <<env, secrets, svc, hist, i, adminAuth, token, poll, sent>>

\* createUser, lines 97-129
CreateUser(p) ==
  /\ pc[p] = "create"
  /\ posted' = [posted EXCEPT ![p][acct[p]] =
                  CreateForm(Get(creds[p], "username"), Get(creds[p], "password"))]
  /\ authSent' = [authSent EXCEPT ![p][acct[p]]["create"] = adminAuth[p]]
  /\ UNCHANGED <<getRef, putRef, before, probed, grantForm>>
  /\ cnt' = Count(p, "create")
  /\ LET login == Get(creds[p], "username")
         password == Get(creds[p], "password")
     IN \E r \in CreateResponses(adminAuth[p], login, password) :
          /\ lastResp' = [lastResp EXCEPT ![p] = r]
          /\ existed' = [existed EXCEPT ![p][acct[p]] = (r = AlreadyExists)]
          /\ users' = IF Succeeded(r) THEN [users EXCEPT ![login] = @ + 1] ELSE users
          /\ res' = Result(p, "create",
                           IF Succeeded(r) \/ r = AlreadyExists THEN "ok" ELSE "err")
          /\ faulted' = Fault(p, r \in Faults)
          /\ IF CreateOutcome(r) \in {"created", "exists"}
               THEN pc' = [pc EXCEPT ![p] = "grant"] /\ UNCHANGED <<acct, err>>
               ELSE Continue(p, AfterThrow(acct[p]), CreateOutcome(r))
  /\ UNCHANGED <<env, secrets, perms, tokenNames, issued, lastIssued, hist, i, adminAuth,
                 creds, token, poll, recs, names>>

\* The grant left out for a user that holds the permission already.
GrantPermissionsIfAbsent(p) ==
  /\ pc[p] = "grant"
  /\ UNCHANGED <<posted, getRef, putRef, before, existed, probed>>
  /\ LET username == Get(creds[p], "username")
     IN IF username \in perms
          THEN /\ pc' = [pc EXCEPT ![p] = "token"]
               /\ UNCHANGED <<acct, err, cnt, res, lastResp, perms, faulted, authSent, grantForm>>
          ELSE /\ cnt' = Count(p, "grant")
               /\ authSent' = [authSent EXCEPT ![p][acct[p]]["grant"] = adminAuth[p]]
               /\ grantForm' = [grantForm EXCEPT ![p][acct[p]] = GrantForm(username)]
               /\ \E r \in GrantResponses(adminAuth[p], username) :
                    /\ lastResp' = [lastResp EXCEPT ![p] = r]
                    /\ perms' = IF Succeeded(r) THEN perms \cup {username} ELSE perms
                    /\ res' = Result(p, "grant", IF Succeeded(r) THEN "ok" ELSE "err")
                    /\ faulted' = Fault(p, r \in Faults)
                    /\ IF Succeeded(r)
                         THEN pc' = [pc EXCEPT ![p] = "token"] /\ UNCHANGED <<acct, err>>
                         ELSE Continue(p, AfterThrow(acct[p]), "AxiosError")
  /\ UNCHANGED <<env, secrets, users, tokenNames, issued, lastIssued, hist, i, adminAuth,
                 creds, token, poll, recs, names>>

\* A catch block that logs the error and does not rethrow it.
GrantPermissionsSwallow(p) ==
  /\ pc[p] = "grant"
  /\ authSent' = [authSent EXCEPT ![p][acct[p]]["grant"] = adminAuth[p]]
  /\ grantForm' = [grantForm EXCEPT ![p][acct[p]] = GrantForm(Get(creds[p], "username"))]
  /\ UNCHANGED <<posted, getRef, putRef, before, existed, probed>>
  /\ cnt' = Count(p, "grant")
  /\ LET username == Get(creds[p], "username")
     IN \E r \in GrantResponses(adminAuth[p], username) :
          /\ lastResp' = [lastResp EXCEPT ![p] = r]
          /\ perms' = IF Succeeded(r) THEN perms \cup {username} ELSE perms
          /\ res' = Result(p, "grant", IF Succeeded(r) THEN "ok" ELSE "err")
          /\ faulted' = Fault(p, r \in Faults)
          /\ pc' = [pc EXCEPT ![p] = "token"]
          /\ UNCHANGED <<acct, err>>
  /\ UNCHANGED <<env, secrets, users, tokenNames, issued, lastIssued, hist, i, adminAuth,
                 creds, token, poll, recs, names>>

\* grantPermissions, lines 131-154
GrantPermissions(p) ==
  /\ pc[p] = "grant"
  /\ authSent' = [authSent EXCEPT ![p][acct[p]]["grant"] = adminAuth[p]]
  /\ grantForm' = [grantForm EXCEPT ![p][acct[p]] = GrantForm(Get(creds[p], "username"))]
  /\ UNCHANGED <<posted, getRef, putRef, before, existed, probed>>
  /\ cnt' = Count(p, "grant")
  /\ LET username == Get(creds[p], "username")
     IN \E r \in GrantResponses(adminAuth[p], username) :
          /\ lastResp' = [lastResp EXCEPT ![p] = r]
          /\ perms' = IF Succeeded(r) THEN perms \cup {username} ELSE perms
          /\ res' = Result(p, "grant", IF Succeeded(r) THEN "ok" ELSE "err")
          /\ faulted' = Fault(p, r \in Faults)
          /\ IF Succeeded(r)
               THEN pc' = [pc EXCEPT ![p] = "token"] /\ UNCHANGED <<acct, err>>
               ELSE Continue(p, AfterThrow(acct[p]), "AxiosError")
  /\ UNCHANGED <<env, secrets, users, tokenNames, issued, lastIssued, hist, i, adminAuth,
                 creds, token, poll, recs, names>>

\* processServiceAccount, lines 78-85, and generateUserToken, lines 156-175
GenerateUserToken(p) ==
  /\ pc[p] = "token"
  /\ UNCHANGED <<posted, getRef, putRef, before, existed, probed, grantForm>>
  /\ cnt' = Count(p, "token")
  /\ LET userAuth == TokenAuth(adminAuth[p], creds[p])
         name == TokenName(userAuth.username)
     IN /\ nameSent' = [nameSent EXCEPT ![p][acct[p]] = name]
        /\ authSent' = [authSent EXCEPT ![p][acct[p]]["token"] = userAuth]
        /\ nameKnown' = [nameKnown EXCEPT ![p][acct[p]] =
                           <<userAuth.username, name>> \in tokenNames]
        /\ \E r \in TokenResponses(userAuth, name) :
             /\ lastResp' = [lastResp EXCEPT ![p] = r]
             /\ res' = Result(p, "token", IF Succeeded(r) THEN "ok" ELSE "err")
             /\ faulted' = Fault(p, r \in Faults)
             /\ IF Succeeded(r)
                  THEN /\ issued' = issued + 1
                       /\ tokenNames' = tokenNames \cup {<<userAuth.username, name>>}
                       /\ lastIssued' = [lastIssued EXCEPT ![userAuth.username] =
                                            ToString(issued + 1)]
                       /\ token' = [token EXCEPT ![p] = ToString(issued + 1)]
                       /\ pc' = [pc EXCEPT ![p] = "put"]
                       /\ UNCHANGED <<acct, err>>
                  ELSE /\ Continue(p, AfterThrow(acct[p]), "AxiosError")
                       /\ UNCHANGED <<issued, tokenNames, lastIssued, token>>
  /\ UNCHANGED <<env, secrets, users, perms, hist, i, adminAuth, creds, poll, recs>>

\* A write that is refused when the secret is no longer as it was read.
PutSecretValueVersionChecked(p) ==
  /\ pc[p] = "put"
  /\ putRef' = [putRef EXCEPT ![p][acct[p]] = SecretArn(acct[p])]
  /\ UNCHANGED <<posted, getRef, before, existed, probed, authSent, grantForm>>
  /\ cnt' = Count(p, "put")
  /\ creds' = [creds EXCEPT ![p] = SetField(@, "token", token[p])]
  /\ \E o \in SmOutcomesFor(SecretArn(acct[p])) :
       IF o = "throws" \/ secrets[SecretArn(acct[p])] # readText[p][acct[p]]
         THEN /\ Continue(p, AfterThrow(acct[p]), "SecretsManagerError")
              /\ res' = Result(p, "put", "err")
              /\ faulted' = Fault(p, o = "throws")
              /\ UNCHANGED secrets
         ELSE /\ secrets' = [secrets EXCEPT ![SecretArn(acct[p])] =
                               <<UpdatedSecretString(creds[p], token[p])>>]
              /\ res' = Result(p, "put", "ok")
              /\ Continue(p, AfterReturn(acct[p]), "none")
              /\ UNCHANGED faulted
  /\ UNCHANGED <<env, svc, hist, i, adminAuth, token, poll, recs, sent>>

\* The write sent to the other account's secret.
PutSecretValueWrongRef(p) ==
  /\ pc[p] = "put"
  /\ putRef' = [putRef EXCEPT ![p][acct[p]] = SecretArn(3 - acct[p])]
  /\ UNCHANGED <<posted, getRef, before, existed, probed, authSent, grantForm>>
  /\ cnt' = Count(p, "put")
  /\ creds' = [creds EXCEPT ![p] = SetField(@, "token", token[p])]
  /\ \E o \in SmOutcomesFor(SecretArn(3 - acct[p])) :
       IF o = "throws"
         THEN /\ Continue(p, AfterThrow(acct[p]), "SecretsManagerError")
              /\ res' = Result(p, "put", "err")
              /\ faulted' = Fault(p, TRUE)
              /\ UNCHANGED secrets
         ELSE /\ secrets' = [secrets EXCEPT ![SecretArn(3 - acct[p])] =
                               <<UpdatedSecretString(creds[p], token[p])>>]
              /\ res' = Result(p, "put", "ok")
              /\ Continue(p, AfterReturn(acct[p]), "none")
              /\ UNCHANGED faulted
  /\ UNCHANGED <<env, svc, hist, i, adminAuth, token, poll, recs, sent>>

\* The write started but its promise not awaited: a rejection goes unseen.
PutSecretValueUnawaited(p) ==
  /\ pc[p] = "put"
  /\ putRef' = [putRef EXCEPT ![p][acct[p]] = SecretArn(acct[p])]
  /\ UNCHANGED <<posted, getRef, before, existed, probed, authSent, grantForm>>
  /\ cnt' = Count(p, "put")
  /\ creds' = [creds EXCEPT ![p] = SetField(@, "token", token[p])]
  /\ \E o \in SmOutcomesFor(SecretArn(acct[p])) :
       /\ secrets' = IF o = "throws" THEN secrets
                     ELSE [secrets EXCEPT ![SecretArn(acct[p])] =
                             <<JSONstringify(SetField(creds[p], "token", token[p]))>>]
       /\ res' = Result(p, "put", IF o = "throws" THEN "err" ELSE "ok")
       /\ faulted' = Fault(p, o = "throws")
       /\ Continue(p, AfterReturn(acct[p]), "none")
  /\ UNCHANGED <<env, svc, hist, i, adminAuth, token, poll, recs, sent>>

\* processServiceAccount, lines 87-95
PutSecretValue(p) ==
  /\ pc[p] = "put"
  /\ putRef' = [putRef EXCEPT ![p][acct[p]] = SecretArn(acct[p])]
  /\ UNCHANGED <<posted, getRef, before, existed, probed, authSent, grantForm>>
  /\ cnt' = Count(p, "put")
  /\ creds' = [creds EXCEPT ![p] = SetField(@, "token", token[p])]
  /\ \E o \in SmOutcomesFor(SecretArn(acct[p])) :
       IF o = "throws"
         THEN /\ Continue(p, AfterThrow(acct[p]), "SecretsManagerError")
              /\ res' = Result(p, "put", "err")
              /\ faulted' = Fault(p, TRUE)
              /\ UNCHANGED secrets
         ELSE /\ secrets' = [secrets EXCEPT ![SecretArn(acct[p])] =
                               <<UpdatedSecretString(creds[p], token[p])>>]
              /\ res' = Result(p, "put", "ok")
              /\ Continue(p, AfterReturn(acct[p]), "none")
              /\ UNCHANGED faulted
  /\ UNCHANGED <<env, svc, hist, i, adminAuth, token, poll, recs, sent>>

Step(p) ==
  \/ StartRun(p)
  \/ CheckConfig(p)
  \/ GetAdminSecret(p)
  \/ Probe(p)
  \/ Delay(p)
  \/ PollExhausted(p)
  \/ GetAccountSecret(p)
  \/ CreateUser(p)
  \/ GrantPermissions(p)
  \/ GenerateUserToken(p)
  \/ PutSecretValue(p)

\* The invoking system runs the handler at most once at a time.
Serial == {1}

Next == \E p \in Serial : Step(p)

Spec == Init /\ [][Next]_vars

\* ------------------------------------------------ two overlapping invocations
\* Nothing in the handler or in the stack keeps a second invocation from
\* starting while one is under way. The two invocations below run against
\* the secrets as the stack creates them and a service that is coming up:
\* each is started once, and at most its first probe goes unanswered.
InitConc ==
  /\ Init
  /\ env = GoodEnv
  /\ secrets = [r \in Arns |-> CASE r = AdminArn -> <<AdminText>>
                                [] r = JenkinsArn -> <<JenkinsText>>
                                [] OTHER -> <<CodeBuildText>>]

StartOnce(p) == pc[p] = "idle" /\ StartRun(p)

ProbeUp(p) == Probe(p) /\ (healthy'[p] \/ probes'[p] = 1)

StepConc(p) ==
  \/ StartOnce(p)
  \/ CheckConfig(p)
  \/ GetAdminSecret(p)
  \/ ProbeUp(p)
  \/ Delay(p)
  \/ GetAccountSecret(p)
  \/ CreateUser(p)
  \/ GrantPermissions(p)
  \/ GenerateUserToken(p)
  \/ PutSecretValue(p)

NextConc == \E p \in Procs : StepConc(p)

SpecConc == InitConc /\ [][NextConc]_vars

\* ------------------------------------------------ the handler as deployed
\* The environment each definition that deploys the handler gives it. The
\* SonarQube stack sets the four variables the handler reads. The
\* SonarQubeConstruct sets SONAR_URL, SONAR_ADMIN_SECRET_ARN and a variable
\* SONAR_SERVICE_ACCOUNT_SECRET_ARN the handler never reads; the Jenkins and
\* CodeBuild variables are left unset.
SonarQubeStackEnv == GoodEnv

SonarQubeConstructEnv ==
  [n \in EnvNames |->
     CASE n = "SONAR_URL" -> "http://sonar"
       [] n = "SONAR_ADMIN_SECRET_ARN" -> AdminArn
       [] OTHER -> Undefined]

DeployedEnvs == {SonarQubeStackEnv, SonarQubeConstructEnv}

InitDeployed ==
  /\ env \in DeployedEnvs
  /\ secrets = [r \in Arns |-> CASE r = AdminArn -> <<AdminText>>
                                [] r = JenkinsArn -> <<JenkinsText>>
                                [] OTHER -> <<CodeBuildText>>]
  /\ InitRun

SpecDeployed == InitDeployed /\ [][Next]_vars

\* ------------------------------------------------------------------ claims
Ended(p) == pc[p] \in {"done", "failed"}
AccountArn(a) == IF a = 1 THEN JenkinsArn ELSE CodeBuildArn
Stored(a) == JSONparse(SecretStringOr(secrets[AccountArn(a)]))
AfterSuccessfulRun == prev # <<>> /\ prev[Len(prev)] = "done"
AccountWrites == {"create", "grant", "token", "put"}

\* C1: while no probe of the invocation has answered UP, no create-user,
\* grant, token-generation or secret-store write has been issued for any
\* account; this holds through the failure that ends the poll.
C1_HealthGate ==
  \A p \in Procs : ~healthy[p] =>
    \A a \in Accounts : \A s \in AccountWrites : cnt[p][a][s] = 0

\* The poll used its whole budget, no probe answered UP, the handler failed.
C1_Witness ==
  \E p \in Procs : /\ pc[p] = "failed" /\ err[p] = "ServiceUnavailable"
                    /\ probes[p] = maxAttempts /\ ~healthy[p]

\* C2 as stated: when the first account's token generation has failed, the
\* second account's sequence is attempted all the same before the run ends.
C2_FailureIsolation ==
  \A p \in Procs : (Ended(p) /\ res[p][1]["token"] = "err") => cnt[p][2]["get"] > 0

\* C2 amended: when the first account's token generation fails the handler
\* is rejected at once: no operation of the second account is issued and
\* no secret is written by the run.
C2_FailFast ==
  \A p \in Procs : res[p][1]["token"] = "err" =>
    /\ pc[p] = "failed"
    /\ \A s \in Steps : cnt[p][2][s] = 0
    /\ cnt[p][1]["put"] = 0

C2_Witness ==
  \E p \in Procs : /\ res[p][1]["token"] = "err" /\ res[p][1]["grant"] = "ok"
                    /\ pc[p] = "failed"

\* C3: once an account's write has succeeded, the stored record holds every
\* field of the record read at the start of that account's sequence with
\* the value read; token is the only field that may be new or differ.
C3_FieldPreservation ==
  \A p \in Procs : \A a \in Accounts : res[p][a]["put"] = "ok" =>
    /\ secrets[AccountArn(a)] # <<>>
    /\ Keys(Stored(a)) = Keys(readRec[p][a]) \cup {"token"}
    /\ \A k \in Keys(readRec[p][a]) \ {"token"} :
         Get(Stored(a), k) = Get(readRec[p][a], k)

\* A record with a name field and a stale token was read and written back.
C3_Witness ==
  \E p \in Procs : /\ res[p][1]["put"] = "ok"
                    /\ Get(readRec[p][1], "name") = "Jenkins CI"
                    /\ Get(readRec[p][1], "token") = "stale"
                    /\ Get(Stored(1), "token") # "stale"

\* C4: a create-user request answered 400 "already exists" raises no error
\* (the sequence goes on to the grant), and an account whose create step
\* has succeeded exists exactly once on the server, in the second run as in
\* the first.
C4_CreateIdempotent ==
  \A p \in Procs :
    /\ lastResp[p] = AlreadyExists => pc[p] = "grant"
    /\ \A a \in Accounts : res[p][a]["create"] = "ok" =>
         users[Get(readRec[p][a], "username")] = 1
    /\ \A l \in Logins : users[l] <= 1

\* The second run, after a successful first one, has had "already exists"
\* for its second account.
C4_Witness ==
  \E p \in Procs : /\ runs = 2 /\ AfterSuccessfulRun
                    /\ acct[p] = 2 /\ lastResp[p] = AlreadyExists /\ pc[p] = "grant"
                    /\ users["jenkins"] = 1 /\ users["codebuild"] = 1

\* C5 as stated: a run that follows a fully successful run completes too; it
\* fails only if the server is not healthy in time or a call meets a fault.
C5_RerunSucceeds ==
  \A p \in Procs : (AfterSuccessfulRun /\ pc[p] = "failed") =>
    (faulted[p] \/ err[p] = "ServiceUnavailable")

\* C5 amended: a run that follows a fully successful run asks for the token
\* name <username>-token again, which the server already holds; every write
\* it completes replaces the stored token by the token just issued; and it
\* fails only by a fault, an unhealthy server, or the server refusing the
\* repeated token name, in which case that account's secret is not replaced.
C5_Rerun ==
  \A p \in Procs : AfterSuccessfulRun =>
    /\ \A a \in Accounts : res[p][a]["token"] # "none" =>
         /\ nameSent[p][a] = <<Get(readRec[p][a], "username"), "-token">>
         /\ nameKnown[p][a]
    /\ \A a \in Accounts : res[p][a]["put"] = "ok" =>
         /\ Get(Stored(a), "token") = lastIssued[Get(readRec[p][a], "username")]
         /\ Get(Stored(a), "token") # Get(readRec[p][a], "token")
    /\ pc[p] = "failed" =>
         \/ faulted[p]
         \/ err[p] = "ServiceUnavailable"
         \/ /\ lastResp[p] = NameConflict
            /\ res[p][acct[p]]["token"] = "err"
            /\ secrets[AccountArn(acct[p])] = readText[p][acct[p]]

\* The second run has completed and replaced both tokens.
C5_Witness ==
  \E p \in Procs : /\ runs = 2 /\ AfterSuccessfulRun /\ pc[p] = "done"
                    /\ \A a \in Accounts : res[p][a]["put"] = "ok"

\* C6: when an account's putSecretValue has failed, the handler is rejected
\* with that error, the account's secret is as it was read, and no step of
\* a later account has been issued.
C6_PersistFailure ==
  \A p \in Procs : \A a \in Accounts : res[p][a]["put"] = "err" =>
    /\ pc[p] = "failed"
    /\ err[p] = "SecretsManagerError"
    /\ secrets[AccountArn(a)] = readText[p][a]
    /\ \A b \in Accounts : b > a => \A s \in Steps : cnt[p][b][s] = 0

C6_Witness ==
  \E p \in Procs : /\ res[p][1]["put"] = "err" /\ res[p][1]["token"] = "ok"
                    /\ pc[p] = "failed"

\* C7: with one of the four variables unset or empty, the invocation never
\* gets past the configuration test: no secret is read, no request is sent,
\* and the handler fails with the configuration error.
C7_ConfigGate ==
  \A p \in Procs : (\E n \in EnvNames : env[n] \in {Undefined, ""}) =>
    /\ pc[p] \in {"idle", "config", "failed"}
    /\ pc[p] = "failed" => err[p] = "ConfigurationError"
    /\ adminReads[p] = 0 /\ probes[p] = 0
    /\ \A a \in Accounts : \A s \in Steps : cnt[p][a][s] = 0

C7_Witness ==
  \E p \in Procs : /\ env["SONAR_CODEBUILD_SECRET_ARN"] = ""
                    /\ pc[p] = "failed" /\ err[p] = "ConfigurationError"

\* C8 as stated: when the admin secret does not resolve to a username and a
\* password, the run performs no health probe and no account operation.
C8_AdminGate ==
  \A p \in Procs :
    LET admin == JSONparse(SecretStringOr(secrets[AdminArn]))
    IN (Get(admin, "username") = Undefined \/ Get(admin, "password") = Undefined) =>
         /\ probes[p] = 0
         /\ \A a \in Accounts : \A s \in Steps : cnt[p][a][s] = 0

\* C9: a probe is sent only after the one read of the admin secret; an
\* account operation (secret read, create, grant, token, write) is issued
\* only after a probe answered UP; waitForSonarQube is called at most once.
C9_GlobalOrdering ==
  \A p \in Procs :
    /\ probes[p] > 0 => adminReads[p] = 1
    /\ \A a \in Accounts : \A s \in Steps : cnt[p][a][s] > 0 => healthy[p]
    /\ polls[p] <= 1
    /\ adminReads[p] <= 1

\* Both accounts were processed after a poll that needed several probes.
C9_Witness ==
  \E p \in Procs : /\ cnt[p][2]["put"] = 1 /\ probes[p] = 3 /\ healthy[p]
                    /\ polls[p] = 1

\* C10: within an account each step is issued at most once and only after
\* the step before it succeeded, "already exists" counting as success of
\* create; so a secret is written only after its token was generated.
C10_AccountOrdering ==
  \A p \in Procs : \A a \in Accounts :
    /\ \A s \in Steps : cnt[p][a][s] <= 1
    /\ cnt[p][a]["create"] > 0 => res[p][a]["get"] = "ok"
    /\ cnt[p][a]["grant"] > 0 => res[p][a]["create"] = "ok"
    /\ cnt[p][a]["token"] > 0 => res[p][a]["grant"] = "ok"
    /\ cnt[p][a]["put"] > 0 => res[p][a]["token"] = "ok"

\* An account went through all four steps with create answered "already exists".
C10_Witness ==
  \E p \in Procs : \E a \in Accounts :
    /\ AfterSuccessfulRun /\ res[p][a]["put"] = "ok"
    /\ \A s \in Steps : cnt[p][a][s] = 1

\* The steps an invocation can still take, at most: what is left of the
\* account sequences, of the poll, and of the handler's first lines.
StepsLeft(a, at) ==
  (2 - a) * 5 + (CASE at = "getSecret" -> 5 [] at = "create" -> 4 [] at = "grant" -> 3
                   [] at = "token" -> 2 [] OTHER -> 1)

Rank(p) ==
  CASE pc[p] \in {"idle", "done", "failed"} -> 0
    [] pc[p] = "config" -> 2 * 30 + 13
    [] pc[p] = "getAdmin" -> 2 * 30 + 12
    [] pc[p] = "probe" -> 2 * (30 - i[p]) + 11
    [] pc[p] = "delay" -> 2 * (30 - i[p]) + 10
    [] OTHER -> StepsLeft(acct[p], pc[p])

\* C11: an invocation sends at most 30 status probes; when all 30 went
\* without an UP answer the handler is rejected with the service-unavailable
\* error and no account operation is issued; and every step of a running
\* invocation lowers a non-negative rank, so the invocation ends once each
\* of its calls has returned.
C11_BoundedPoll ==
  /\ [](\A p \in Procs :
          /\ probes[p] <= 30
          /\ Rank(p) >= 0
          /\ (probes[p] = 30 /\ ~healthy[p] /\ pc[p] \notin {"probe", "delay"}) =>
               /\ pc[p] = "failed" /\ err[p] = "ServiceUnavailable"
               /\ \A a \in Accounts : \A s \in Steps : cnt[p][a][s] = 0)
  /\ [][\A p \in Procs : (Running(p) /\ pc'[p] # pc[p]) => Rank(p)' < Rank(p)]_vars

\* The thirtieth probe failed, the last delay was taken, the handler failed.
C11_Witness ==
  \E p \in Procs : /\ probes[p] = 30 /\ i[p] = 30 /\ pc[p] = "failed"
                    /\ err[p] = "ServiceUnavailable" /\ adminReads[p] = 1

\* C12: once a probe has answered UP the poll is over, the probes sent are
\* exactly the attempts up to that one and the delays one fewer (none after
\* the answer); and when UP came on attempt 3 and the Jenkins record
\* {username: jenkins, password: p2} went through all its steps, create-user
\* was sent once with login jenkins, the token was asked under the name
\* jenkins-token, and the secret holds username, password and that token.
C12_PollReturn ==
  \A p \in Procs :
    /\ healthy[p] =>
         /\ pc[p] \notin {"probe", "delay"}
         /\ probes[p] = i[p] + 1
         /\ delays[p] = probes[p] - 1
    /\ (probes[p] = 3 /\ readText[p][1] = <<JenkinsText>> /\ res[p][1]["put"] = "ok") =>
         /\ cnt[p][1]["create"] = 1
         /\ posted[p][1].login = "jenkins"
         /\ nameSent[p][1] = <<"jenkins", "-token">>
         /\ secrets[JenkinsArn] =
              << << <<"username", "jenkins">>, <<"password", "p2">>,
                    <<"token", lastIssued["jenkins"]>> >> >>

\* UP on the third attempt, then the Jenkins account fully onboarded.
C12_Witness ==
  \E p \in Procs : /\ probes[p] = 3 /\ delays[p] = 2 /\ healthy[p]
                    /\ readText[p][1] = <<JenkinsText>> /\ res[p][1]["put"] = "ok"
                    /\ lastIssued["jenkins"] = "1"

\* C13: the handler has returned successfully exactly when a probe answered
\* UP and both accounts went through secret read, create, grant, token
\* generation and write with success; and then each account's stored
\* record holds the token the server issued to that account in this run.
C13_SuccessIff ==
  \A p \in Procs :
    /\ pc[p] = "done" <=>
         (healthy[p] /\ \A a \in Accounts : \A s \in Steps : res[p][a][s] = "ok")
    /\ pc[p] = "done" =>
         \A a \in Accounts :
           /\ lastIssued[Get(readRec[p][a], "username")] # Undefined
           /\ Get(Stored(a), "token") = lastIssued[Get(readRec[p][a], "username")]

\* A first run that returned successfully.
C13_Witness ==
  \E p \in Procs : /\ runs = 1 /\ pc[p] = "done" /\ issued = 2
                    /\ Get(Stored(2), "token") = "2"

\* C14: createUser goes on after an answer only if the request succeeded or
\* the answer is a 400 whose first message contains "already exists"; any
\* other failure of create-user, and any failure of the grant or of the
\* token generation, rejects the handler and no later step of that account
\* is issued.
C14_SingleAmnesty ==
  \A p \in Procs :
    /\ (pc[p] = "grant" /\ cnt[p][acct[p]]["grant"] = 0) =>
         \/ lastResp[p].status = 200
         \/ /\ lastResp[p].status = 400
            /\ lastResp[p].errors # <<>>
            /\ Includes(lastResp[p].errors[1], <<"already", "exists">>)
    /\ \A a \in Accounts :
         /\ res[p][a]["create"] = "err" =>
              /\ pc[p] = "failed" /\ err[p] # "none"
              /\ \A s \in {"grant", "token", "put"} : cnt[p][a][s] = 0
         /\ res[p][a]["grant"] = "err" =>
              /\ pc[p] = "failed" /\ err[p] # "none"
              /\ \A s \in {"token", "put"} : cnt[p][a][s] = 0
         /\ res[p][a]["token"] = "err" =>
              /\ pc[p] = "failed" /\ err[p] # "none"
              /\ cnt[p][a]["put"] = 0

\* A grant answered 500 after a successful create ended the sequence.
C14_Witness ==
  \E p \in Procs : /\ res[p][1]["create"] = "ok" /\ res[p][1]["grant"] = "err"
                    /\ lastResp[p].status = 500 /\ pc[p] = "failed"

\* C15: within one invocation the admin secret is read at most once, and
\* for each account the secret read, create-user, the grant, the token
\* generation and the secret write are each issued at most once: nothing
\* but the status probe is ever repeated.
C15_NoRetry ==
  \A p \in Procs :
    /\ adminReads[p] <= 1
    /\ \A a \in Accounts : \A s \in Steps : cnt[p][a][s] <= 1
    /\ (\E a \in Accounts : \E s \in Steps : res[p][a][s] = "err") => pc[p] = "failed"

\* A run that repeated its probe and then issued every other call once.
C15_Witness ==
  \E p \in Procs : /\ pc[p] = "done" /\ probes[p] = 2 /\ adminReads[p] = 1
                    /\ \A a \in Accounts : \A s \in Steps : cnt[p][a][s] = 1

\* The record the persist step of account a writes in invocation p: the
\* record read at the start of the sequence with the token just issued.
Written(p, a) ==
  <<JSONstringify(SetField(readRec[p][a], "token",
                           lastIssued[Get(readRec[p][a], "username")]))>>

\* C16: in every invocation that has not succeeded, whether still running
\* or failed, each account's stored record is the value its own completed
\* persist step wrote if that step completed, and otherwise exactly what
\* the store held when the invocation started; the admin record is never
\* changed. A completed write of the first account stays in the store when
\* the second account fails: nothing is rolled back.
C16_StoreOnFailure ==
  \A p \in Serial : pc[p] # "done" =>
    /\ secrets[AdminArn] = before[p][AdminArn]
    /\ \A a \in Accounts :
         secrets[AccountArn(a)] = IF res[p][a]["put"] = "ok"
                                    THEN Written(p, a)
                                    ELSE before[p][AccountArn(a)]

\* The first account's write committed, the second account failed before
\* its persist step: the first record is new, the second untouched.
C16_Witness ==
  \E p \in Serial : /\ pc[p] = "failed" /\ res[p][1]["put"] = "ok"
                     /\ res[p][2]["token"] = "err"
                     /\ secrets[JenkinsArn] # before[p][JenkinsArn]
                     /\ secrets[CodeBuildArn] = before[p][CodeBuildArn]

AfterFailedRun == prev # <<>> /\ prev[Len(prev)] = "failed"

\* Invocation p has ended, it was given every variable, a probe answered
\* UP, and no call it made met a fault or was refused, "already exists" on
\* create-user not counting as a refusal.
EveryCallSucceeded(p) ==
  /\ Ended(p) /\ env = GoodEnv /\ healthy[p] /\ ~faulted[p]
  /\ \A a \in Accounts : \A s \in Steps : res[p][a][s] # "err"

\* C17: a run that follows a failed run, finds the service healthy and has
\* every call succeed completes for all accounts: the handler resolves,
\* each account's stored token is the token issued to it in this run, and
\* the target holds exactly one account per username, an account a failed
\* run left behind being reused through the "already exists" answer.
C17_Recovery ==
  \A p \in Procs : (AfterFailedRun /\ EveryCallSucceeded(p)) =>
    /\ pc[p] = "done"
    /\ \A a \in Accounts :
         /\ res[p][a]["put"] = "ok"
         /\ Get(Stored(a), "token") = lastIssued[Get(readRec[p][a], "username")]
         /\ Get(Stored(a), "token") \notin {Undefined, Get(readRec[p][a], "token")}
         /\ users[Get(readRec[p][a], "username")] = 1

\* The first run created the first account and failed before a token was
\* issued for it; the second run met "already exists", went on, and ended
\* with both tokens stored.
C17_Witness ==
  \E p \in Procs : /\ prev = <<"failed">> /\ pc[p] = "done"
                    /\ existed[p][1] /\ ~nameKnown[p][1] /\ ~existed[p][2]
                    /\ \A a \in Accounts : res[p][a]["put"] = "ok"

\* C18: the token name of every generate request is <username>-token for
\* the username of the account's record and depends on nothing else: the
\* accounts of one invocation request equal names exactly when their
\* usernames are equal, the target never holds two names for one username
\* however many runs have generated tokens, so a later run for the same
\* account repeats the name an earlier run registered.
C18_TokenName ==
  /\ \A p \in Procs : \A a \in Accounts : res[p][a]["token"] # "none" =>
       /\ nameSent[p][a] = <<Get(readRec[p][a], "username"), "-token">>
       /\ nameSent[p][a][1] \in Logins
       /\ res[p][a]["token"] = "ok" => <<nameSent[p][a][1], nameSent[p][a]>> \in tokenNames
       /\ \A b \in Accounts : res[p][b]["token"] # "none" =>
            (nameSent[p][a] = nameSent[p][b]
               <=> Get(readRec[p][a], "username") = Get(readRec[p][b], "username"))
  /\ \A m, n \in tokenNames : m[1] = n[1] <=> m[2] = n[2]
  /\ \A u \in Logins : lastIssued[u] # Undefined <=> \E n \in tokenNames : n[1] = u

\* In a second run the name requested for the first account is the name
\* the first run had registered, and both accounts were issued tokens.
C18_Witness ==
  \E p \in Procs : /\ runs = 2 /\ nameKnown[p][1]
                    /\ res[p][1]["token"] = "ok" /\ res[p][2]["token"] = "ok"
                    /\ nameSent[p][1] # nameSent[p][2]

\* C19: the first sequence of an invocation works on the Jenkins secret
\* and the second on the CodeBuild secret; an operation of the second
\* sequence is issued only when every step of the first has been issued and
\* its secret write has completed, and from then on the first sequence
\* issues nothing more.
C19_DeclaredOrder ==
  \A p \in Procs :
    /\ getRef[p][1] \in {"none", JenkinsArn} /\ putRef[p][1] \in {"none", JenkinsArn}
    /\ getRef[p][2] \in {"none", CodeBuildArn} /\ putRef[p][2] \in {"none", CodeBuildArn}
    /\ (\E s \in Steps : cnt[p][2][s] > 0) =>
         /\ \A s \in Steps : cnt[p][1][s] = 1
         /\ res[p][1]["put"] = "ok"
         /\ acct[p] = 2
    /\ (Running(p) /\ acct[p] = 1) => \A s \in Steps : cnt[p][2][s] = 0

\* The CodeBuild sequence is under way, after the Jenkins secret was
\* written.
C19_Witness ==
  \E p \in Procs : /\ pc[p] = "token" /\ acct[p] = 2
                    /\ getRef[p] = <<JenkinsArn, CodeBuildArn>>
                    /\ putRef[p] = <<JenkinsArn, "none">>

\* C20: the persist step is a read-then-replace with no version check.
\* When an invocation's secret write completes, the secret becomes the
\* record that invocation read at the start of the sequence with its own
\* token, whatever the secret holds by then; and a write is rejected only
\* when the secret store fails, never because the secret has changed since
\* it was read. Two overlapping invocations can therefore end with a stored
\* token that is not the one the target issued last.
C20_ReadThenReplace ==
  [][\A p \in Procs : \A a \in Accounts :
       /\ (res[p][a]["put"] = "none" /\ res'[p][a]["put"] = "ok") =>
            /\ secrets'[AccountArn(a)] =
                 <<JSONstringify(SetField(readRec[p][a], "token", token[p]))>>
            /\ \A r \in Arns \ {AccountArn(a)} : secrets'[r] = secrets[r]
       /\ (res[p][a]["put"] = "none" /\ res'[p][a]["put"] = "err") =>
            /\ faulted'[p]
            /\ secrets' = secrets]_vars

\* Both invocations have completed, and the Jenkins secret holds a token
\* older than the one the target issued last for that account.
C20_Witness ==
  /\ \A p \in Procs : pc[p] = "done"
  /\ Get(Stored(1), "token") # Undefined
  /\ Get(Stored(1), "token") # lastIssued[Get(Stored(1), "username")]

\* C21: a probe ends the poll as healthy only when its request was answered
\* and the answer's status member is UP. After an answered probe with any
\* other status, and after a request error or timeout, the poll is not
\* over: the delay follows, the attempt is used up (exactly as many attempts
\* are used as probes were sent), and the next probe or the failure comes.
C21_HealthPredicate ==
  \A p \in Procs : probes[p] > 0 =>
    IF ~probed[p].failed /\ probed[p].status = "UP"
      THEN /\ healthy[p]
           /\ pc[p] \notin {"probe", "delay"}
           /\ err[p] # "ServiceUnavailable"
      ELSE /\ ~healthy[p]
           /\ \/ pc[p] = "delay" /\ i[p] = probes[p] - 1
              \/ pc[p] = "probe" /\ i[p] = probes[p]
              \/ pc[p] = "failed" /\ err[p] = "ServiceUnavailable"
                                  /\ i[p] = probes[p] /\ probes[p] = maxAttempts
           /\ \A a \in Accounts : \A s \in Steps : cnt[p][a][s] = 0

\* An answered probe whose status member is not UP: the poll goes on with
\* the delay, the second attempt now used.
C21_Witness ==
  \E p \in Procs : /\ pc[p] = "delay" /\ probes[p] = 2
                    /\ ~probed[p].failed /\ probed[p].status = "STARTING"

\* The username and password in the admin secret as the store held it when
\* invocation p started.
AdminRead(p) ==
  LET rec == JSONparse(SecretStringOr(before[p][AdminArn]))
  IN [username |-> Get(rec, "username"), password |-> Get(rec, "password")]

\* C22: every create-user and every grant request of an invocation carries
\* the username and password of the admin secret as read at its start, the
\* same pair for both accounts, and the handler's copy of that pair never
\* changes once read; every generate-token request carries the username and
\* password of the account's own record, which is not the admin pair.
C22_Principals ==
  \A p \in Procs :
    /\ polls[p] > 0 => adminAuth[p] = AdminRead(p)
    /\ \A a \in Accounts :
         /\ cnt[p][a]["create"] > 0 => authSent[p][a]["create"] = AdminRead(p)
         /\ cnt[p][a]["grant"] > 0 => authSent[p][a]["grant"] = AdminRead(p)
         /\ cnt[p][a]["token"] > 0 =>
              /\ authSent[p][a]["token"] =
                   [username |-> Get(readRec[p][a], "username"),
                    password |-> Get(readRec[p][a], "password")]
              /\ authSent[p][a]["token"] # AdminRead(p)
              /\ authSent[p][a]["token"] # authSent[p][a]["create"]

\* Both accounts went through all their requests: four as admin, and each
\* token request as the account itself.
C22_Witness ==
  \E p \in Procs : /\ pc[p] = "done"
                    /\ authSent[p][1]["create"] = ServiceAdmin
                    /\ authSent[p][2]["grant"] = ServiceAdmin
                    /\ authSent[p][1]["token"].username = "jenkins"
                    /\ authSent[p][2]["token"].username = "codebuild"

\* C23: for an account whose create-user ended in success, a created user
\* and an "already exists" answer alike, the next request is the grant:
\* exactly one POST to permissions/add_user with that account's username
\* and permission scan, sent whether or not the user holds the permission
\* already, and sent before any token request of the account.
C23_UnconditionalGrant ==
  \A p \in Procs : \A a \in Accounts :
    /\ res[p][a]["create"] = "ok" =>
         \/ pc[p] = "grant" /\ acct[p] = a /\ cnt[p][a]["grant"] = 0
         \/ /\ cnt[p][a]["grant"] = 1
            /\ grantForm[p][a] = [login |-> Get(readRec[p][a], "username"),
                                  permission |-> "scan"]
            /\ grantForm[p][a].login = posted[p][a].login
    /\ cnt[p][a]["grant"] > 0 => res[p][a]["create"] = "ok" /\ grantForm[p][a] # NoGrant
    /\ cnt[p][a]["token"] > 0 => cnt[p][a]["grant"] = 1 /\ res[p][a]["grant"] = "ok"

\* In a second run create-user was answered "already exists" for a user
\* that held the permission from the first run; the grant was sent again.
C23_Witness ==
  \E p \in Procs : /\ runs = 2 /\ existed[p][1] /\ cnt[p][1]["grant"] = 1
                    /\ grantForm[p][1] = [login |-> "jenkins", permission |-> "scan"]
                    /\ AfterSuccessfulRun /\ pc[p] = "token"

\* C24: the step that issues an account's putSecretValue issues the only
\* one of that account in the invocation; its SecretId is the reference
\* the account's record was read from; and when the call completes, that
\* secret and no other changes, to one text that holds the username and
\* the password as read, every other field read, and the token just
\* generated: the whole record, not the token alone.
C24_SingleFullWrite ==
  [][\A p \in Procs : \A a \in Accounts :
       cnt'[p][a]["put"] > cnt[p][a]["put"] =>
         /\ cnt[p][a]["put"] = 0 /\ cnt'[p][a]["put"] = 1
         /\ getRef[p][a] \in Arns \ {AdminArn}
         /\ putRef'[p][a] = getRef[p][a]
         /\ \A r \in Arns \ {getRef[p][a]} : secrets'[r] = secrets[r]
         /\ res'[p][a]["put"] = "ok" =>
              LET written == JSONparse(SecretStringOr(secrets'[getRef[p][a]]))
              IN /\ Len(secrets'[getRef[p][a]]) = 1
                 /\ Get(written, "username") = Get(readRec[p][a], "username")
                 /\ Get(written, "password") = Get(readRec[p][a], "password")
                 /\ Get(written, "token") = token[p]
                 /\ Keys(readRec[p][a]) \cup {"token"} \subseteq Keys(written)
                 /\ Keys(written) # {"token"}
         /\ res'[p][a]["put"] = "err" => secrets' = secrets]_vars

\* The CodeBuild record, read with a name field, was written back whole to
\* the reference it was read from.
C24_Witness ==
  \E p \in Procs : /\ res[p][2]["put"] = "ok" /\ cnt[p][2]["put"] = 1
                    /\ putRef[p][2] = CodeBuildArn /\ getRef[p][2] = CodeBuildArn
                    /\ "name" \in Keys(readRec[p][2])
                    /\ "name" \in Keys(Stored(2)) /\ "token" \in Keys(Stored(2))

\* C25 as stated: the delay is taken only between attempts: a poll that
\* succeeds on attempt k has taken k-1 delays, and a poll that has used up
\* its 30 attempts has taken 29, none after the last failed attempt.
C25_DelaysBetween ==
  \A p \in Procs :
    /\ healthy[p] => delays[p] = probes[p] - 1
    /\ (pc[p] = "failed" /\ err[p] = "ServiceUnavailable") =>
         /\ probes[p] = maxAttempts
         /\ delays[p] = maxAttempts - 1

\* C26 as stated: when create-user was answered with a failure that is not
\* the "already exists" case, the handler is rejected with the request's own
\* error, also when the answer is a 400 without any entry in its errors
\* list.
C26_OriginalError ==
  \A p \in Procs : \A a \in Accounts :
    res[p][a]["create"] = "err" => pc[p] = "failed" /\ err[p] = "AxiosError"

\* C27: no step of any invocation, whatever its outcome, changes the admin
\* secret or issues a putSecretValue on the admin reference; a secret
\* changes only in a step that issues an account's putSecretValue, and then
\* only the secret that call names; the references written are the Jenkins
\* and the CodeBuild reference, each by its own account's one write.
C27_AdminReadOnly ==
  [][/\ secrets'[AdminArn] = secrets[AdminArn]
     /\ secrets' # secrets =>
          \E p \in Procs : \E a \in Accounts :
            /\ cnt[p][a]["put"] = 0 /\ cnt'[p][a]["put"] = 1
            /\ \A r \in Arns \ {putRef'[p][a]} : secrets'[r] = secrets[r]
     /\ \A p \in Procs : \A a \in Accounts :
          /\ putRef'[p][a] \in {"none", AccountArn(a)}
          /\ putRef'[p][a] # AdminArn
          /\ cnt'[p][a]["put"] <= 1
          /\ putRef'[p][a] # "none" <=> cnt'[p][a]["put"] = 1]_vars

\* A run wrote both account secrets and ended; the admin secret is as it
\* was read.
C27_Witness ==
  \E p \in Procs : /\ pc[p] = "done" /\ adminReads[p] = 1
                    /\ putRef[p] = <<JenkinsArn, CodeBuildArn>>
                    /\ secrets[JenkinsArn] # before[p][JenkinsArn]
                    /\ secrets[CodeBuildArn] # before[p][CodeBuildArn]
                    /\ secrets[AdminArn] = <<AdminText>>

\* C28 as stated: when the record read for an account has no username or
\* no password, no create-user, grant or token request is issued for that
\* account, and no create-user form is ever posted without a login.
C28_NoAbsentLogin ==
  \A p \in Procs : \A a \in Accounts :
    /\ (/\ res[p][a]["get"] = "ok"
        /\ \/ Get(readRec[p][a], "username") = Undefined
           \/ Get(readRec[p][a], "password") = Undefined) =>
         \A s \in Posts : cnt[p][a][s] = 0
    /\ posted[p][a].login # Undefined

\* C29 as stated: every definition that deploys the handler gives it the
\* four variables it requires, so no deployed handler is rejected at its
\* configuration test.
C29_DeployedConfigured ==
  \A p \in Procs : Ended(p) =>
    /\ \A n \in EnvNames : env[n] \notin {Undefined, ""}
    /\ err[p] # "ConfigurationError"

====
